---- MODULE Spec2Model ----
(***************************************************************************)
(* gitlab-roulette (src/src/main.rs): the interactive run of main() from   *)
(* the choice of the issue selection strategy to the last assignment       *)
(* request.  The fetched issues and members are the inputs; every prompt   *)
(* answer, every random draw, the shuffle and every HTTP result is a       *)
(* nondeterministic choice.                                                *)
(***************************************************************************)
EXTENDS Integers, Sequences, FiniteSets

VARIABLES issues, members, pc, selection_type, milestones, selected_milestones,
          range_start, range_end, selected_issues, selected_members,
          continue_confirm, assign_confirm, assignements, preview,
          writes, remote, outcome, diag

vars == <<issues, members, pc, selection_type, milestones, selected_milestones,
          range_start, range_end, selected_issues, selected_members,
          continue_confirm, assign_confirm, assignements, preview,
          writes, remote, outcome, diag>>

\* ---------------------------------------------------------------- bounds
\* Longest fetched issue list; issue ids are drawn from 1..MaxIssues.
MaxIssues == 3
\* Number of fetched project members.
MaxMembers == 3
\* Milestone ids are drawn from 1..MaxMilestone.
MaxMilestone == 2
\* Longest text typed at the issue id prompt.
MaxInputLen == 2

\* ------------------------------------------------------------ data model
\* Option<GitlabMilestone>: <<>> is None, <<m>> is Some(m).
None == <<>>
Some(x) == <<x>>
is_some(o) == Len(o) = 1
unwrap(o) == o[1]

\* impl PartialEq for GitlabMilestone: equality by id.
MilestoneEq(a, b) == a.id = b.id

\* Vec::contains with the PartialEq above.
RECURSIVE MilestoneContains(_, _)
MilestoneContains(v, m) ==
  IF v = <<>> THEN FALSE
  ELSE IF MilestoneEq(v[1], m) THEN TRUE
  ELSE MilestoneContains(Tail(v), m)

\* GitlabMilestone values of the fetched data: id and title.
MilestoneTitles == {"v1", "v2"}
Milestones == [id : 1..MaxMilestone, title : MilestoneTitles]

\* GitlabIssue: id (global), iid (project scoped), milestone.
IssueIds == 1..MaxIssues
IidOf(id) == MaxIssues + id
IssueRecs(ms) == {[id |-> i, iid |-> IidOf(i), milestone |-> m] : i \in IssueIds, m \in ms}

DistinctIds(s) == \A i, j \in 1..Len(s) : i # j => s[i].id # s[j].id
AscendingIds(s) == \A i \in 1..Len(s) : s[i].id = i

SeqsUpTo(S, n) == UNION {[1..k -> S] : k \in 0..n}

\* Fetched lists without milestones, ids in any order.
PlainIssueLists == {s \in SeqsUpTo(IssueRecs({None}), MaxIssues) : DistinctIds(s)}
\* Fetched lists with any milestone pattern, ids 1..k in order.
MilestoneIssueLists ==
  {s \in SeqsUpTo(IssueRecs({None} \cup {Some(m) : m \in Milestones}), MaxIssues) : AscendingIds(s)}

\* GitlabProjectMember: id.
MemberList == [i \in 1..MaxMembers |-> [id |-> MaxMembers + i]]

\* ------------------------------------------------------------- Selector
\* MultiSelect answer: the checked indices, in list order, mapped to items.
RECURSIVE PickFrom(_, _, _)
PickFrom(v, checked, k) ==
  IF k > Len(v) THEN <<>>
  ELSE IF k \in checked THEN <<v[k]>> \o PickFrom(v, checked, k + 1)
  ELSE PickFrom(v, checked, k + 1)

Picked(v, checked) == PickFrom(v, checked, 1)

\* Faulty variant: every milestone seen is pushed, without the contains test.
RECURSIVE CollectMilestonesNoDedup(_, _)
CollectMilestonesNoDedup(iss, acc) ==
  IF iss = <<>> THEN acc
  ELSE IF is_some(iss[1].milestone)
       THEN CollectMilestonesNoDedup(Tail(iss), Append(acc, unwrap(iss[1].milestone)))
       ELSE CollectMilestonesNoDedup(Tail(iss), acc)

\* The milestones offered to the user: first-seen order, no repeats.
RECURSIVE CollectMilestones(_, _)
CollectMilestones(iss, acc) ==
  IF iss = <<>> THEN acc
  ELSE IF is_some(iss[1].milestone) /\ ~MilestoneContains(acc, unwrap(iss[1].milestone))
       THEN CollectMilestones(Tail(iss), Append(acc, unwrap(iss[1].milestone)))
       ELSE CollectMilestones(Tail(iss), acc)

\* The issues of the picked milestones.
RECURSIVE MilestoneFilter(_, _)
MilestoneFilter(iss, sel) ==
  IF iss = <<>> THEN <<>>
  ELSE IF is_some(iss[1].milestone) /\ MilestoneContains(sel, unwrap(iss[1].milestone))
       THEN <<iss[1]>> \o MilestoneFilter(Tail(iss), sel)
       ELSE MilestoneFilter(Tail(iss), sel)

\* Faulty variant: the last boundary is exclusive.
RECURSIVE RangeFilterExclusiveEnd(_, _, _)
RangeFilterExclusiveEnd(iss, start, end) ==
  IF iss = <<>> THEN <<>>
  ELSE IF iss[1].id >= start /\ iss[1].id < end
       THEN <<iss[1]>> \o RangeFilterExclusiveEnd(Tail(iss), start, end)
       ELSE RangeFilterExclusiveEnd(Tail(iss), start, end)

\* The issues whose id lies between the two boundaries.
RECURSIVE RangeFilter(_, _, _)
RangeFilter(iss, start, end) ==
  IF iss = <<>> THEN <<>>
  ELSE IF iss[1].id >= start /\ iss[1].id <= end
       THEN <<iss[1]>> \o RangeFilter(Tail(iss), start, end)
       ELSE RangeFilter(Tail(iss), start, end)

\* ---- the validated issue id prompt
Digits == <<"0", "1", "2", "3", "4", "5", "6", "7", "8", "9">>
IsDigit(c) == \E d \in 1..10 : Digits[d] = c
DigitValue(c) == (CHOOSE d \in 1..10 : Digits[d] = c) - 1

I32Max == 2147483647
I32Min == (0 - I32Max) - 1

\* Accumulates the magnitude of the digits s[k..]; None on a non-digit.
RECURSIVE ParseDigits(_, _, _)
ParseDigits(s, k, acc) ==
  IF k > Len(s) THEN Some(acc)
  ELSE IF ~IsDigit(s[k]) THEN None
  ELSE ParseDigits(s, k + 1, acc * 10 + DigitValue(s[k]))

\* str::parse::<i32>(): optional sign, then digits only, within the i32 range.
ParseI32(s) ==
  IF s = <<>> THEN None
  ELSE IF s \in {<<"+">>, <<"-">>} THEN None
  ELSE LET negative == s[1] = "-"
           mag == ParseDigits(s, IF s[1] \in {"+", "-"} THEN 2 ELSE 1, 0)
       IN IF ~is_some(mag) THEN None
          ELSE LET val == IF negative THEN 0 - unwrap(mag) ELSE unwrap(mag)
               IN IF val > I32Max \/ val < I32Min THEN None ELSE Some(val)

\* issue_id_select: Some(id) when the typed text passes the validator and the
\* prompt returns, None when the validator rejects it and the prompt asks again.
issue_id_select(iss, input) ==
  LET num == ParseI32(input)
  IN IF is_some(num) /\ (\E k \in 1..Len(iss) : iss[k].id = unwrap(num))
     THEN num
     ELSE None

\* Texts the user may type at the prompt.
InputChars == {"+", "-", "x"} \cup {Digits[d + 1] : d \in 0..MaxIssues}
Inputs == SeqsUpTo(InputChars, MaxInputLen)

\* -------------------------------------------------------------- Balancer
issue_per_member(n, m) == n \div m

\* Faulty variant: one more extra draw than the remainder.
RestOffByOne(n, m) == (n % m) + 1

rest(n, m) == n % m

\* (0..m).flat_map(|i| (0..q).map(|_| i)): each member index q times, in order.
BaseAllocation(m, q) == [k \in 1..(m * q) |-> (k - 1) \div q]

Perms(n) == {p \in [1..n -> 1..n] : \A i, j \in 1..n : i # j => p[i] # p[j]}

\* Faulty variant: every slot is redrawn from the vector instead of permuting it.
ShufflesResample(v) == [1..Len(v) -> {v[i] : i \in 1..Len(v)}]

\* SliceRandom::shuffle: any permutation of the vector.
Shuffles(v) == {[i \in 1..Len(v) |-> v[p[i]]] : p \in Perms(Len(v))}

\* -------------------------------------------------------------- Executor
\* Line 328: the member shown in the preview for the i-th selected issue.
PreviewMember(sm, a, i) == sm[a[i] + 1]

\* Faulty variant: the executor pairs the issues with the vector read backwards.
ExecuteMemberReversed(sm, a, i) == sm[a[Len(a) + 1 - i] + 1]

\* Line 344: the member the i-th selected issue is written with.
ExecuteMember(sm, a, i) == sm[a[i] + 1]

\* The PUT request of lines 345-351.
WriteRequest(issue, member) == [iid |-> issue.iid, assignee |-> member.id]

\* Result of one request: sent and 200, sent and another status, not sent.
WriteResults == {"ok", "not_ok", "send_err"}

\* Faulty variant: the response status is not looked at.
WriteFailsSendOnly(res) == res = "send_err"

\* Lines 353 and 359: the request failed.
WriteFails(res) == res = "send_err" \/ res # "ok"

\* Faulty variant: the answer to the confirmation is ignored.
ConfirmExitsNever(confirm) == FALSE

\* Lines 311 and 338: the run stops when the user answers no.
ConfirmExits(confirm) == ~confirm

NoDiag == [msg |-> "", issue |-> None]
\* Lines 354 and 360: what is printed for a failed request.
WriteDiag(res, issue) ==
  IF res = "send_err" THEN [msg |-> "failed to send request", issue |-> None]
  ELSE [msg |-> "failed to assign issue", issue |-> Some(issue.iid)]

\* ------------------------------------------------------------ the run
SelectionTypes == {"Milestone", "Range", "Manual"}

\* The pcs at which the run waits in a dialoguer prompt.
PromptPcs == {"select_type", "select_issues", "range_end", "select_members",
              "confirm_continue", "confirm_assignment"}

InitWith(lists, mems) ==
  /\ issues \in lists
  /\ members = mems
  /\ pc = "select_type"
  /\ selection_type = "unset"
  /\ milestones = <<>>
  /\ selected_milestones = <<>>
  /\ range_start = 0
  /\ range_end = 0
  /\ selected_issues = <<>>
  /\ selected_members = <<>>
  /\ continue_confirm = None
  /\ assign_confirm = None
  /\ assignements = <<>>
  /\ preview = <<>>
  /\ writes = <<>>
  /\ remote = {}
  /\ outcome = "running"
  /\ diag = NoDiag

\* A project whose issues carry no milestone, with MaxMembers members.
Init == InitWith(PlainIssueLists, MemberList)

\* A project whose issues carry milestones, with a single member.
InitMilestone == InitWith(MilestoneIssueLists, SubSeq(MemberList, 1, 1))

\* Lines 235-241 (and 257-264 for the milestone strategy).
ChooseSelectionType ==
  /\ pc = "select_type"
  /\ \E t \in SelectionTypes :
       /\ selection_type' = t
       /\ milestones' = IF t = "Milestone" THEN CollectMilestones(issues, <<>>) ELSE <<>>
  /\ pc' = "select_issues"
  /\ UNCHANGED <<issues, members, selected_milestones, range_start, range_end,
                 selected_issues, selected_members, continue_confirm, assign_confirm,
                 assignements, preview, writes, remote, outcome, diag>>

\* Lines 244-255.
SelectManual ==
  /\ pc = "select_issues"
  /\ selection_type = "Manual"
  /\ \E checked \in SUBSET (1..Len(issues)) :
       selected_issues' = Picked(issues, checked)
  /\ pc' = "select_members"
  /\ UNCHANGED <<issues, members, selection_type, milestones, selected_milestones,
                 range_start, range_end, selected_members, continue_confirm,
                 assign_confirm, assignements, preview, writes, remote, outcome, diag>>

\* Lines 266-284.
SelectMilestone ==
  /\ pc = "select_issues"
  /\ selection_type = "Milestone"
  /\ \E checked \in SUBSET (1..Len(milestones)) :
       /\ selected_milestones' = Picked(milestones, checked)
       /\ selected_issues' = MilestoneFilter(issues, selected_milestones')
  /\ pc' = "select_members"
  /\ UNCHANGED <<issues, members, selection_type, milestones, range_start, range_end,
                 selected_members, continue_confirm, assign_confirm, assignements,
                 preview, writes, remote, outcome, diag>>

\* Line 286.
EnterRangeStart ==
  /\ pc = "select_issues"
  /\ selection_type = "Range"
  /\ \E input \in Inputs :
       LET answer == issue_id_select(issues, input)
       IN /\ is_some(answer)
          /\ range_start' = unwrap(answer)
  /\ pc' = "range_end"
  /\ UNCHANGED <<issues, members, selection_type, milestones, selected_milestones,
                 range_end, selected_issues, selected_members, continue_confirm,
                 assign_confirm, assignements, preview, writes, remote, outcome, diag>>

\* Lines 287-294.
EnterRangeEnd ==
  /\ pc = "range_end"
  /\ \E input \in Inputs :
       LET answer == issue_id_select(issues, input)
       IN /\ is_some(answer)
          /\ range_end' = unwrap(answer)
  /\ selected_issues' = RangeFilter(issues, range_start, range_end')
  /\ pc' = "select_members"
  /\ UNCHANGED <<issues, members, selection_type, milestones, selected_milestones,
                 range_start, selected_members, continue_confirm, assign_confirm,
                 assignements, preview, writes, remote, outcome, diag>>

\* Lines 297-303.
SelectMembers ==
  /\ pc = "select_members"
  /\ \E checked \in SUBSET (1..Len(members)) :
       selected_members' = Picked(members, checked)
  /\ pc' = "confirm_continue"
  /\ UNCHANGED <<issues, members, selection_type, milestones, selected_milestones,
                 range_start, range_end, selected_issues, continue_confirm,
                 assign_confirm, assignements, preview, writes, remote, outcome, diag>>

\* Lines 305-313.
ConfirmContinue ==
  /\ pc = "confirm_continue"
  /\ \E confirm \in BOOLEAN :
       /\ continue_confirm' = Some(confirm)
       /\ IF ConfirmExits(confirm)
          THEN pc' = "done" /\ outcome' = "exit_0"
          ELSE pc' = "balance" /\ outcome' = outcome
  /\ UNCHANGED <<issues, members, selection_type, milestones, selected_milestones,
                 range_start, range_end, selected_issues, selected_members,
                 assign_confirm, assignements, preview, writes, remote, diag>>

\* Line 316 with no member selected: the integer division panics.
DivideByZero ==
  /\ pc = "balance"
  /\ Len(selected_members) = 0
  /\ pc' = "done"
  /\ outcome' = "panic"
  /\ diag' = [msg |-> "attempt to divide by zero", issue |-> None]
  /\ UNCHANGED <<issues, members, selection_type, milestones, selected_milestones,
                 range_start, range_end, selected_issues, selected_members,
                 continue_confirm, assign_confirm, assignements, preview, writes,
                 remote>>

\* Lines 316-323: the base allocation followed by the extra draws.
Distribute ==
  /\ pc = "balance"
  /\ Len(selected_members) > 0
  /\ LET n == Len(selected_issues)
         m == Len(selected_members)
     IN \E extra \in [1..rest(n, m) -> 0..(m - 1)] :
          assignements' = BaseAllocation(m, issue_per_member(n, m)) \o extra
  /\ pc' = "shuffle"
  /\ UNCHANGED <<issues, members, selection_type, milestones, selected_milestones,
                 range_start, range_end, selected_issues, selected_members,
                 continue_confirm, assign_confirm, preview, writes, remote, outcome,
                 diag>>

\* Lines 324-332: the shuffle, then the preview printed to the user.
ShuffleAndPreview ==
  /\ pc = "shuffle"
  /\ \E s \in Shuffles(assignements) :
       /\ assignements' = s
       /\ preview' = [i \in 1..Len(selected_issues) |->
                        [issue |-> selected_issues[i],
                         member |-> PreviewMember(selected_members, s, i)]]
  /\ pc' = "confirm_assignment"
  /\ UNCHANGED <<issues, members, selection_type, milestones, selected_milestones,
                 range_start, range_end, selected_issues, selected_members,
                 continue_confirm, assign_confirm, writes, remote, outcome, diag>>

\* Lines 334-341: on no, "Exiting" is printed before the exit with status 0.
ConfirmAssignment ==
  /\ pc = "confirm_assignment"
  /\ \E confirm \in BOOLEAN :
       /\ assign_confirm' = Some(confirm)
       /\ IF ConfirmExits(confirm)
          THEN /\ pc' = "done"
               /\ outcome' = "exit_0"
               /\ diag' = [msg |-> "Exiting", issue |-> None]
          ELSE /\ pc' = "execute"
               /\ outcome' = outcome
               /\ diag' = diag
  /\ UNCHANGED <<issues, members, selection_type, milestones, selected_milestones,
                 range_start, range_end, selected_issues, selected_members,
                 continue_confirm, assignements, preview, writes, remote>>

\* Lines 343-363: one iteration of the assignment loop.
ExecuteWrite ==
  /\ pc = "execute"
  /\ Len(writes) < Len(selected_issues)
  /\ LET i == Len(writes) + 1
         issue == selected_issues[i]
         rand_member == ExecuteMember(selected_members, assignements, i)
         request == WriteRequest(issue, rand_member)
     IN \E res \in WriteResults :
          /\ writes' = Append(writes, [request |-> request, result |-> res])
          /\ remote' = IF res = "ok" THEN remote \cup {request} ELSE remote
          /\ IF WriteFails(res)
             THEN pc' = "done" /\ outcome' = "exit_1" /\ diag' = WriteDiag(res, issue)
             ELSE pc' = pc /\ outcome' = outcome /\ diag' = diag
  /\ UNCHANGED <<issues, members, selection_type, milestones, selected_milestones,
                 range_start, range_end, selected_issues, selected_members,
                 continue_confirm, assign_confirm, assignements, preview>>

\* Lines 365-367: the loop is over.
Finish ==
  /\ pc = "execute"
  /\ Len(writes) = Len(selected_issues)
  /\ pc' = "done"
  /\ outcome' = "ok"
  /\ diag' = [msg |-> "issues assigned !", issue |-> None]
  /\ UNCHANGED <<issues, members, selection_type, milestones, selected_milestones,
                 range_start, range_end, selected_issues, selected_members,
                 continue_confirm, assign_confirm, assignements, preview, writes,
                 remote>>

\* interact().unwrap() at any prompt: the prompt returns an error and the run panics.
PromptFails ==
  /\ pc \in PromptPcs
  /\ pc' = "done"
  /\ outcome' = "panic"
  /\ diag' = [msg |-> "called Result::unwrap() on an Err value", issue |-> None]
  /\ UNCHANGED <<issues, members, selection_type, milestones, selected_milestones,
                 range_start, range_end, selected_issues, selected_members,
                 continue_confirm, assign_confirm, assignements, preview, writes,
                 remote>>

Next ==
  \/ ChooseSelectionType
  \/ SelectManual
  \/ SelectMilestone
  \/ EnterRangeStart
  \/ EnterRangeEnd
  \/ SelectMembers
  \/ ConfirmContinue
  \/ DivideByZero
  \/ Distribute
  \/ ShuffleAndPreview
  \/ ConfirmAssignment
  \/ ExecuteWrite
  \/ Finish
  \/ PromptFails

Spec == Init /\ [][Next]_vars

SpecMilestone == InitMilestone /\ [][Next]_vars

\* ---------------------------------------------------------- properties
n == Len(selected_issues)
m == Len(selected_members)

\* The balancer and the preview have run (lines 314-332 are behind).
BalancerRan ==
  \/ pc \in {"confirm_assignment", "execute"}
  \/ pc = "done" /\ assign_confirm # None

\* Number of issues the member index i receives in the vector a.
Count(a, i) == Cardinality({k \in 1..Len(a) : a[k] = i})

RECURSIVE SumCounts(_, _)
SumCounts(a, i) == IF i < 0 THEN 0 ELSE Count(a, i) + SumCounts(a, i - 1)

\* sub lists elements of full, each once, in the order they have in full.
InOrderOf(sub, full) ==
  \E f \in [1..Len(sub) -> 1..Len(full)] :
    /\ \A j \in 1..Len(sub) : sub[j] = full[f[j]]
    /\ \A i, j \in 1..Len(sub) : i < j => f[i] < f[j]

Contains(v, x) == \E j \in 1..Len(v) : v[j] = x

\* C1: once the balancer has run with at least one member, the assignment
\* vector has exactly one entry per selected issue, each entry is a member
\* index in 0..m-1, and the pairing shown pairs the i-th issue with exactly one
\* selected member; with no issue selected the vector is empty and the run has
\* not failed.
C1_AssignmentTotal ==
  BalancerRan =>
    /\ m >= 1
    /\ Len(assignements) = n
    /\ \A k \in 1..Len(assignements) : assignements[k] \in 0..(m - 1)
    /\ Len(preview) = n
    /\ \A k \in 1..Len(preview) :
         /\ preview[k].issue = selected_issues[k]
         /\ Contains(selected_members, preview[k].member)
    /\ (n = 0 /\ pc = "confirm_assignment") => (assignements = <<>> /\ outcome = "running")

C1_Witness ==
  /\ pc = "confirm_assignment"
  /\ n = 3
  /\ m = 2
  /\ Count(assignements, 0) = 1

\* C2: once the balancer has run, every member receives q = n div m or q+1
\* issues and exactly r = n mod m members receive q+1.
C2_Balanced ==
  BalancerRan =>
    LET q == n \div m
        r == n % m
    IN /\ \A i \in 0..(m - 1) : Count(assignements, i) \in {q, q + 1}
       /\ Cardinality({i \in 0..(m - 1) : Count(assignements, i) = q + 1}) = r

\* C3: with no member selected, a run that was told to continue ends in a
\* reported precondition error: a failure exit, not the division panic, and no
\* write call.
C3_PreconditionError ==
  (pc = "done" /\ continue_confirm = Some(TRUE) /\ m = 0) =>
    /\ outcome = "exit_1"
    /\ diag.msg # "attempt to divide by zero"
    /\ writes = <<>>

\* C4: a failed write call is the last one issued, the run has ended with a
\* failure status, every call before it succeeded and is applied on the
\* remote, and no issue was written twice.
C4_StopAtFirstFailure ==
  /\ Len(writes) <= n
  /\ \A k \in 1..Len(writes) :
       /\ writes[k].request.iid = selected_issues[k].iid
       /\ writes[k].result # "ok" =>
            /\ k = Len(writes)
            /\ pc = "done"
            /\ outcome = "exit_1"
            /\ \A j \in 1..(k - 1) :
                 /\ writes[j].result = "ok"
                 /\ writes[j].request \in remote
                 /\ writes[j].request.iid # writes[k].request.iid

C4_Witness ==
  /\ pc = "done"
  /\ n = 3
  /\ Len(writes) = 2
  /\ writes[2].result = "not_ok"
  /\ Cardinality(remote) = 1

\* C5: whenever a write call failed, the diagnostic printed names the issue
\* whose write failed.
C5_FailureNamesIssue ==
  (Len(writes) > 0 /\ writes[Len(writes)].result # "ok" /\ outcome = "exit_1") =>
    diag.issue = Some(selected_issues[Len(writes)].iid)

\* C6: the k-th write call is for the k-th issue of the preview and carries
\* the member the preview showed for it.
C6_ExecutionFollowsPreview ==
  /\ Len(writes) <= Len(preview)
  /\ \A k \in 1..Len(writes) :
       /\ k <= Len(preview)
       /\ writes[k].request.iid = preview[k].issue.iid
       /\ writes[k].request.assignee = preview[k].member.id

C6_Witness ==
  /\ Len(writes) = 3
  /\ writes[1].request.assignee # writes[3].request.assignee
  /\ outcome = "ok"

\* The range strategy has returned its selection.
RangeDone == selection_type = "Range" /\ range_end # 0

\* C7: the range strategy returns exactly the fetched issues with
\* start <= id <= end, in fetched order, where both boundaries are ids of
\* fetched issues; nothing when start > end, the one issue when start = end.
C7_RangeSelection ==
  RangeDone =>
    /\ \E k \in 1..Len(issues) : issues[k].id = range_start
    /\ \E k \in 1..Len(issues) : issues[k].id = range_end
    /\ \A k \in 1..Len(issues) :
         Contains(selected_issues, issues[k])
           <=> (range_start <= issues[k].id /\ issues[k].id <= range_end)
    /\ InOrderOf(selected_issues, issues)
    /\ range_start > range_end => selected_issues = <<>>
    /\ range_start = range_end =>
         (Len(selected_issues) = 1 /\ selected_issues[1].id = range_start)

C7_Witness ==
  /\ RangeDone
  /\ pc = "select_members"
  /\ Len(issues) = 3
  /\ range_start < range_end
  /\ Len(selected_issues) = 2
  /\ selected_issues[1].id > selected_issues[2].id

\* Position of the first fetched issue that carries the milestone id.
FirstSeen(id) ==
  CHOOSE k \in 1..Len(issues) :
    /\ is_some(issues[k].milestone) /\ unwrap(issues[k].milestone).id = id
    /\ \A j \in 1..(k - 1) :
         ~(is_some(issues[j].milestone) /\ unwrap(issues[j].milestone).id = id)

\* C8: under the milestone strategy the offered list holds each milestone id
\* of the fetched issues once, in first-seen order, and the result is exactly
\* the fetched issues whose milestone has the id of a picked milestone, in
\* fetched order; an issue without milestone is never in it.
C8_MilestoneSelection ==
  selection_type = "Milestone" =>
    /\ \A i, j \in 1..Len(milestones) : i # j => milestones[i].id # milestones[j].id
    /\ \A k \in 1..Len(issues) :
         is_some(issues[k].milestone) =>
           \E i \in 1..Len(milestones) : milestones[i].id = unwrap(issues[k].milestone).id
    /\ \A i \in 1..Len(milestones) :
         /\ \E k \in 1..Len(issues) : issues[k].milestone = Some(milestones[i])
         /\ issues[FirstSeen(milestones[i].id)].milestone = Some(milestones[i])
    /\ \A i, j \in 1..Len(milestones) :
         i < j => FirstSeen(milestones[i].id) < FirstSeen(milestones[j].id)
    /\ InOrderOf(selected_milestones, milestones)
    /\ \A k \in 1..Len(issues) :
         Contains(selected_issues, issues[k])
           <=> /\ is_some(issues[k].milestone)
               /\ \E p \in 1..Len(selected_milestones) :
                    selected_milestones[p].id = unwrap(issues[k].milestone).id
    /\ InOrderOf(selected_issues, issues)
    /\ \A j \in 1..Len(selected_issues) : selected_issues[j].milestone # None

C8_Witness ==
  /\ selection_type = "Milestone"
  /\ pc = "select_members"
  /\ Len(issues) = 3
  /\ issues[1].milestone # None
  /\ issues[2].milestone = None
  /\ issues[3].milestone # None
  /\ issues[1].milestone # issues[3].milestone
  /\ Len(milestones) = 1
  /\ Len(selected_issues) = 2

\* The per-member bounds of the vector a for n issues and m members.
CountsWithin(a) ==
  LET q == n \div m
      r == n % m
  IN /\ \A i \in 0..(m - 1) : q <= Count(a, i) /\ Count(a, i) <= q + r
     /\ SumCounts(a, m - 1) = n

\* C9: every member receives at least q and at most q + r issues and the
\* counts sum to n, before and after the shuffle; the shuffle leaves every
\* member's count as it was.
C9_CountBounds ==
  /\ []((pc = "shuffle" \/ BalancerRan) => CountsWithin(assignements))
  /\ [][pc = "shuffle" =>
          \A i \in 0..(m - 1) : Count(assignements', i) = Count(assignements, i)]_vars

C9_Witness ==
  /\ pc = "confirm_assignment"
  /\ n = 2
  /\ m = 3
  /\ Count(assignements, 1) = 2

\* C10: a write call is issued only after both confirmations were answered
\* yes; a no to either ends the run with exit status 0 and no write call.
C10_WritesNeedBothConfirmations ==
  /\ (writes # <<>> \/ remote # {}) =>
       (continue_confirm = Some(TRUE) /\ assign_confirm = Some(TRUE))
  /\ (continue_confirm = Some(FALSE) \/ assign_confirm = Some(FALSE)) =>
       (pc = "done" /\ outcome = "exit_0" /\ writes = <<>> /\ remote = {})

C10_Witness ==
  /\ assign_confirm = Some(FALSE)
  /\ pc = "done"
  /\ n = 2
  /\ m = 2

====
